---- MODULE Spec2Model ----
(***************************************************************************)
(* Transcriber: the per-group transcription pass (gpt4-note-translater.py) *)
(* with its persisted response cache, and the orchestrating request        *)
(* handler process_images (app.py) that runs the resize, OCR and text      *)
(* conversion stages of each group as subprocesses.                        *)
(*                                                                         *)
(* Text is modelled as a sequence of character codes, so that sorting and  *)
(* joining filenames is computed as Python computes it.                    *)
(*                                                                         *)
(* The functions generate_uuid, parse_date_string, combine_responses and   *)
(* clean_json_text are also run on their own (FpSpec, DateSpec, AggSpec,   *)
(* CleanSpec), each on arguments drawn from a bounded set. The request     *)
(* handler is also run without the subprocesses behind it: two requests    *)
(* served side by side on the shared progress record (RaceSpec), and one   *)
(* request at a time under fairness (OneRequestSpec).                      *)
(***************************************************************************)
EXTENDS Integers, Sequences, FiniteSets, TLC

\* ------------------------------------------------------------------ bounds

\* The largest number of groups in one request.
MaxGroups == 2

\* The longest filename list handed to generate_uuid in FpSpec.
MaxList == 3

\* The pages of a group handed to combine_responses on its own.
MaxPages == 2

\* The characters of the string value of a model response handed to clean_json_text.
MaxContent == 2

\* ------------------------------------------------------------ text helpers

Dash == 45

\* "a", "b", "c", and a name that holds the separator: "a-b".
FileA == <<97>>
FileB == <<98>>
FileC == <<99>>
FileAB == <<97, 45, 98>>

\* model = "gpt-4o"
model == <<103, 112, 116, 45, 52, 111>>

Min(a, b) == IF a < b THEN a ELSE b

\* Python's str "<": lexicographic by code point, a proper prefix is smaller.
LexLess(a, b) ==
    \E k \in 1..(Min(Len(a), Len(b)) + 1) :
        /\ \A j \in 1..(k - 1) : a[j] = b[j]
        /\ \/ k > Len(a) /\ k <= Len(b)
           \/ k <= Len(a) /\ k <= Len(b) /\ a[k] < b[k]

Range(s) == {s[k] : k \in DOMAIN s}

\* sorted(set(...)): the distinct elements in ascending order.
RECURSIVE SortSet(_)
SortSet(S) ==
    IF S = {} THEN <<>>
    ELSE LET m == CHOOSE x \in S : \A y \in S \ {x} : LexLess(x, y)
         IN <<m>> \o SortSet(S \ {m})

\* sep.join(parts)
RECURSIVE JoinWith(_, _)
JoinWith(parts, sep) ==
    IF parts = <<>> THEN <<>>
    ELSE IF Len(parts) = 1 THEN parts[1]
    ELSE parts[1] \o sep \o JoinWith(Tail(parts), sep)

\* hashlib.md5(s).hexdigest(): a deterministic function of the hashed text, kept
\* symbolic (the digest of s is the tagged text s; no two texts collide).
Md5Hex(s) == [md5 |-> s]

\* f"{'-'.join(sorted(set(filenames)))}-{model}"
UniqueStringUnsorted(filenames, mdl) == JoinWith(filenames, <<Dash>>) \o <<Dash>> \o mdl
UniqueString(filenames, mdl) ==
    JoinWith(SortSet(Range(filenames)), <<Dash>>) \o <<Dash>> \o mdl

\* generate_uuid; the empty list raises ValueError.
ValueError == [md5 |-> <<-1>>]
generate_uuidUnsorted(filenames, mdl) ==
    IF filenames = <<>> THEN ValueError
    ELSE Md5Hex(UniqueStringUnsorted(filenames, mdl))
generate_uuid(filenames, mdl) ==
    IF filenames = <<>> THEN ValueError
    ELSE Md5Hex(UniqueString(filenames, mdl))

\* f"n{i+1}"
GroupName(i) == <<"n", i + 1>>

\* os.path.join(folder_path, img)
PathJoin(dir, img) == <<dir, img>>

\* ---------------------------------------------------------------- mappings

EmptyMap == [x \in {} |-> 0]
MapOnly(k, v) == [x \in {k} |-> v]

\* ------------------------------------------------------------------- state

VARIABLES
    \* app.py, process_images
    opc,                  \* where the request handler stands ("idle": no request in progress)
    total_groups,         \* len(groups) of the request being processed
    folder,               \* the images in the input folder of the group being processed
    i,                    \* the per-group loop index
    completed_groups,
    failed_groups,
    processing_progress,  \* the module-level progress record
    http,                 \* the response to the last request
    attempts,             \* history: the group indices whose processing began, in order
    failedAt,             \* history: which stage of which group failed, and how
    \* gpt4-note-translater.py, one pass (one subprocess)
    tpc,                  \* where the pass stands ("off": no subprocess)
    cache_file,           \* the persisted responses.json
    responses,            \* the cache as loaded when the pass started
    image_list,           \* the folder's image files as os.listdir returned them
    uuid,
    response_dict,
    individual_responses,
    idx,                  \* the per-image loop index
    all_individual_responses,  \* what combine_responses returned
    returncode,           \* the exit code of the pass
    call_log,             \* history: the model calls of this pass, in order
    wrote,                \* history: the pass has rewritten the cache file
    prev,                 \* history: the previous pass of this cache file
    everStored,           \* history: the fingerprints a pass has stored a record for
    exports,              \* history: the exit of each export run of this request, in order
    ocr_log,              \* history: what was done with the OCR text of the group in hand
    counted,              \* history: the fingerprint of each group counted completed in this request
    \* generate_uuid on its own
    fp_in,
    fp_out,
    \* parse_date_string, combine_responses and clean_json_text on their own
    arg,
    result,
    year_padded,          \* whether the platform's strftime prints %Y in four digits
    \* process_images serving two requests at a time
    handlers              \* the local variables of each request's handler

orchVars == <<opc, total_groups, folder, i, completed_groups, failed_groups, processing_progress,
              http, attempts, failedAt>>
passVars == <<tpc, responses, image_list, uuid, response_dict, individual_responses,
              idx, all_individual_responses, returncode, call_log, wrote>>
cacheVars == <<cache_file, prev, everStored>>
histVars == <<exports, ocr_log, counted>>
fpVars == <<fp_in, fp_out>>
fnVars == <<arg, result, year_padded>>
pureVars == <<fpVars, fnVars, handlers>>
vars == <<orchVars, passVars, cacheVars, histVars, pureVars>>

\* ------------------------------------------------------------------ inputs

\* The image sets a group of a request can hold: no image, one page, three pages.
\* A group's images are read only in the group's own iteration, so they are drawn
\* when that iteration begins.
GroupMenu == {{}, {FileA}, {FileA, FileB, FileC}}

Reverse(s) == [k \in DOMAIN s |-> s[Len(s) + 1 - k]]

\* os.listdir(folder_path) returns the files in an arbitrary order, which may
\* differ from one pass to the next: here ascending or descending. (Every order,
\* and repeated entries, are covered on generate_uuid itself in FpSpec.)
ListDir(S) == {SortSet(S), Reverse(SortSet(S))}

\* What a model call can do: return a JSON object, return text that is not JSON,
\* or raise (network error, API error).
CallOutcomes == {"ok", "badjson", "raise"}

\* What a stage subprocess can do: exit 0, exit non-zero, or subprocess.run raises
\* (no interpreter, a None value in env).
StageOutcomes == {"ok", "nonzero", "raise"}

\* ----------------------------------------------------------------- records

NoUuid == [md5 |-> <<>>]
NoDict == [shape |-> "empty", map |-> EmptyMap, rec |-> EmptyMap]
NoCombined == [present |-> FALSE, transcription |-> <<>>]
NoPrev == [uuid |-> NoUuid, stored |-> FALSE, rec |-> EmptyMap]

\* The parsed JSON object of a page, or the cleaned text that json.loads refused.
ParsedPage(f) == [kind |-> "dict", text |-> f]
RawPage(f) == [kind |-> "str", text |-> f]

PageRecord(f, valid, t) == [filename |-> f, is_valid_json |-> valid, transcription |-> t]

NoSummary == [present |-> FALSE, is_valid_json |-> FALSE, contents |-> "none"]
NoPaths == [present |-> FALSE, paths |-> <<>>]

\* response_dict[uuid] of a group with at most one PageRecord.
SingleDoc(pages) ==
    [image_paths |-> NoPaths, summary |-> NoSummary, individual_responses |-> pages]

\* response_dict[uuid] of a group with several PageRecords.
MultiDoc(folder_path, listing, out, pages) ==
    [image_paths |-> [present |-> TRUE,
                      paths |-> [k \in DOMAIN listing |-> PathJoin(folder_path, listing[k])]],
     summary |-> [present |-> TRUE,
                  is_valid_json |-> (out = "ok"),
                  contents |-> IF out = "ok" THEN "parsed" ELSE "raw"],
     individual_responses |-> pages]

\* ------------------------------------------------- gpt4-note-translater.py

\* The main loop's fingerprint of a folder: image_list holds the bare file names
\* (image_file, not image_path), so the folder name does not enter.
GroupUuid(folder_name, listing) == generate_uuid(listing, model)

\* uuid in responses
CacheHitNever(u, resp) == FALSE
CacheHit(u, resp) == u \in DOMAIN resp

\* The per-image try block: a PageRecord is appended unless the call raised.
AppendPage(pages, f, out) ==
    IF out = "raise" THEN pages
    ELSE IF out = "ok" THEN Append(pages, PageRecord(f, TRUE, ParsedPage(f)))
    ELSE Append(pages, PageRecord(f, FALSE, RawPage(f)))

\* The loop index after an image, whatever its call did (except ... continue).
NextImageAborting(k, n, out) == IF out = "ok" THEN k + 1 ELSE n
NextImage(k, n, out) == k + 1

\* combine_responses indexes every PageRecord's transcription by key: a
\* transcription that is still a str raises TypeError.
CombineRaises(pages) == \E k \in DOMAIN pages : pages[k].transcription.kind # "dict"

\* combine_responses: the page texts in page order (joined by a blank line).
combine_responses(pages) ==
    [present |-> TRUE,
     transcription |-> [k \in DOMAIN pages |-> pages[k].transcription.text]]

\* json.dump(response_dict, json_file): what the file holds after the store.
CacheAfterStore(resp, rd) == rd

\* The subprocess starts: load the cache, list the folder and read each image
\* with its extracted text, then look the group up.
T_Start ==
    /\ tpc = "start"
    /\ responses' = cache_file
    /\ \E listing \in ListDir(folder) :
        /\ image_list' = listing
        /\ IF listing = <<>>
           THEN /\ tpc' = "exit"
                /\ returncode' = 0
                /\ UNCHANGED <<uuid, response_dict, idx>>
           ELSE /\ uuid' = GroupUuid(GroupName(i), listing)
                /\ IF CacheHit(uuid', cache_file)
                   THEN /\ response_dict' = [shape |-> "record", map |-> EmptyMap,
                                             rec |-> cache_file[uuid']]
                        /\ tpc' = "exit"
                        /\ returncode' = 0
                        /\ UNCHANGED idx
                   ELSE /\ response_dict' = NoDict
                        /\ tpc' = "page"
                        /\ idx' = 0
                        /\ UNCHANGED returncode
    /\ ocr_log' = IF image_list' = <<>> THEN ocr_log ELSE Append(ocr_log, "read")
    /\ UNCHANGED <<individual_responses, all_individual_responses, call_log, wrote>>
    /\ UNCHANGED <<orchVars, cacheVars, exports, counted, pureVars>>

\* One per-image model call with the parse of its response.
T_PageCall ==
    /\ tpc = "page"
    /\ idx < Len(image_list)
    /\ \E out \in CallOutcomes :
        /\ call_log' = Append(call_log, [filename |-> image_list[idx + 1], outcome |-> out])
        /\ individual_responses' = AppendPage(individual_responses, image_list[idx + 1], out)
        /\ idx' = NextImage(idx, Len(image_list), out)
    /\ tpc' = IF idx' >= Len(image_list) THEN "aggregate" ELSE "page"
    /\ UNCHANGED <<responses, image_list, uuid, response_dict, all_individual_responses,
                   returncode, wrote>>
    /\ UNCHANGED <<orchVars, cacheVars, histVars, pureVars>>

\* The store of a finished group: dump, and the pass ends.
Store(rec) ==
    /\ response_dict' = [shape |-> "mapping", map |-> MapOnly(uuid, rec), rec |-> EmptyMap]
    /\ cache_file' = CacheAfterStore(responses, MapOnly(uuid, rec))
    /\ everStored' = everStored \cup {uuid}
    /\ wrote' = TRUE
    /\ tpc' = "exit"
    /\ returncode' = 0
    /\ UNCHANGED prev

\* The pass dies of an uncaught exception.
Crash ==
    /\ tpc' = "exit"
    /\ returncode' = 1
    /\ UNCHANGED <<response_dict, wrote, cacheVars>>

\* After the per-image loop: a single PageRecord (or none) is stored as it is,
\* several are combined for the summary call.
T_Aggregate ==
    /\ tpc = "aggregate"
    /\ IF Len(individual_responses) > 1
       THEN IF CombineRaises(individual_responses)
            THEN Crash /\ UNCHANGED all_individual_responses
            ELSE /\ all_individual_responses' = combine_responses(individual_responses)
                 /\ tpc' = "summary"
                 /\ UNCHANGED <<response_dict, returncode, wrote, cacheVars>>
       ELSE Store(SingleDoc(individual_responses)) /\ UNCHANGED all_individual_responses
    /\ UNCHANGED <<responses, image_list, uuid, individual_responses, idx, call_log>>
    /\ UNCHANGED <<orchVars, histVars, pureVars>>

\* Which outcomes of the summary call end the pass with a traceback: the call
\* is outside any try block, the parse of its response is inside one.
SummaryEndsPassOnBadJson(out) == out # "ok"
SummaryEndsPass(out) == out = "raise"

\* The summary call of a multi-page group.
T_SummaryCall ==
    /\ tpc = "summary"
    /\ \E out \in CallOutcomes :
        /\ call_log' = Append(call_log, [filename |-> <<>>, outcome |-> out])
        /\ IF SummaryEndsPass(out)
           THEN Crash
           ELSE Store(MultiDoc(GroupName(i), image_list, out, individual_responses))
    /\ UNCHANGED <<responses, image_list, uuid, individual_responses, idx,
                   all_individual_responses>>
    /\ UNCHANGED <<orchVars, histVars, pureVars>>

\* ------------------------------------------------------ parse_date_string

\* The text of a date, of a tag list and of a model response is a sequence of
\* characters, each a one-character string; a character outside ASCII is
\* written by its code point ("U+00A0").
Digits == <<"0", "1", "2", "3", "4", "5", "6", "7", "8", "9">>
DigitValues == [c \in Range(Digits) |-> (CHOOSE k \in DOMAIN Digits : Digits[k] = c) - 1]
IsDigit(c) == c \in DOMAIN DigitValues
DigitVal(c) == DigitValues[c]

RECURSIVE Number(_)
Number(t) == IF t = <<>> THEN 0 ELSE Number(SubSeq(t, 1, Len(t) - 1)) * 10 + DigitVal(t[Len(t)])

RECURSIVE Decimal(_)
Decimal(n) == IF n < 10 THEN <<Digits[n + 1]>> ELSE Append(Decimal(n \div 10), Digits[(n % 10) + 1])

UpperCase == <<"A", "B", "C", "D", "E", "F", "G", "H", "I", "J", "K", "L", "M", "N", "O", "P", "Q", "R", "S", "T", "U", "V", "W", "X", "Y", "Z">>
LowerCase == <<"a", "b", "c", "d", "e", "f", "g", "h", "i", "j", "k", "l", "m", "n", "o", "p", "q", "r", "s", "t", "u", "v", "w", "x", "y", "z">>
LowerOf == [c \in Range(UpperCase) |-> LowerCase[CHOOSE k \in DOMAIN UpperCase : UpperCase[k] = c]]
Lower(c) == IF c \in DOMAIN LowerOf THEN LowerOf[c] ELSE c
LowerText(t) == [k \in DOMAIN t |-> Lower(t[k])]

\* str.strip() and the \s of a regular expression.
IsSpace(c) == c \in {" ", "\t", "\n", "\r", "U+000B", "U+000C", "U+0085", "U+00A0"}
RECURSIVE LStrip(_)
LStrip(t) == IF t # <<>> /\ IsSpace(t[1]) THEN LStrip(Tail(t)) ELSE t
RECURSIVE RStrip(_)
RStrip(t) == IF t # <<>> /\ IsSpace(t[Len(t)]) THEN RStrip(SubSeq(t, 1, Len(t) - 1)) ELSE t
Strip(t) == RStrip(LStrip(t))

\* A value the model's JSON may carry where a date is expected.
None == [kind |-> "none", chars |-> <<>>]
Text(t) == [kind |-> "str", chars |-> t]
IntValue == [kind |-> "int", chars |-> <<>>]
Raised == [kind |-> "raise", chars |-> <<>>]

MonthAbbr ==
    << <<"J", "a", "n">>, <<"F", "e", "b">>, <<"M", "a", "r">>, <<"A", "p", "r">>,
       <<"M", "a", "y">>, <<"J", "u", "n">>, <<"J", "u", "l">>, <<"A", "u", "g">>,
       <<"S", "e", "p">>, <<"O", "c", "t">>, <<"N", "o", "v">>, <<"D", "e", "c">> >>
MonthOf == [t \in {LowerText(MonthAbbr[k]) : k \in DOMAIN MonthAbbr} |->
               CHOOSE k \in DOMAIN MonthAbbr : LowerText(MonthAbbr[k]) = t]

\* datetime.strptime: the regular expression of each directive of a format
\* (%d: 3[0-1]|[1-2]\d|0[1-9]|[1-9]| [1-9]; %m: 1[0-2]|0[1-9]|[1-9]; %Y: \d\d\d\d;
\* %b: an abbreviated month name, whatever its case; a blank of the format: \s+;
\* any other character: itself).
IsDayField(t) ==
    \/ (Len(t) = 1 /\ IsDigit(t[1]) /\ t[1] # "0")
    \/ (Len(t) = 2 /\ t[1] = "3" /\ t[2] \in {"0", "1"})
    \/ (Len(t) = 2 /\ t[1] \in {"1", "2"} /\ IsDigit(t[2]))
    \/ (Len(t) = 2 /\ t[1] \in {"0", " "} /\ IsDigit(t[2]) /\ t[2] # "0")
IsMonthField(t) ==
    \/ (Len(t) = 1 /\ IsDigit(t[1]) /\ t[1] # "0")
    \/ (Len(t) = 2 /\ t[1] = "1" /\ t[2] \in {"0", "1", "2"})
    \/ (Len(t) = 2 /\ t[1] = "0" /\ IsDigit(t[2]) /\ t[2] # "0")
FieldOk(e, t) ==
    CASE e = "%d" -> IsDayField(t)
      [] e = "%m" -> IsMonthField(t)
      [] e = "%Y" -> Len(t) = 4 /\ \A k \in DOMAIN t : IsDigit(t[k])
      [] e = "%b" -> LowerText(t) \in DOMAIN MonthOf
      [] e = " " -> \A k \in DOMAIN t : IsSpace(t[k])
      [] OTHER -> t = <<e>>

\* The lengths of text a format element may take, of what is left.
FieldLens(e, left) ==
    CASE e \in {"%d", "%m"} -> 1..Min(2, left)
      [] e = "%Y" -> {n \in {4} : n <= left}
      [] e = "%b" -> {n \in {3} : n <= left}
      [] e = " " -> 1..left
      [] OTHER -> 1..Min(1, left)

NoDate == [d |-> 0, m |-> 0, y |-> 0]
FieldPut(e, acc, t) ==
    CASE e = "%d" -> [acc EXCEPT !.d = Number(IF t[1] = " " THEN Tail(t) ELSE t)]
      [] e = "%m" -> [acc EXCEPT !.m = Number(t)]
      [] e = "%Y" -> [acc EXCEPT !.y = Number(t)]
      [] e = "%b" -> [acc EXCEPT !.m = MonthOf[LowerText(t)]]
      [] OTHER -> acc

\* The ways the whole of s, from position si on, matches the format from
\* element fi on.  (The fields of these formats are delimited by literal
\* characters or by the end of the text, and the alternatives of %d and %m
\* stand longest first, so the prefix match strptime makes and then rejects
\* when text remains decides as the match of the whole text does.)
RECURSIVE Parses(_, _, _, _, _)
Parses(fmt, s, fi, si, acc) ==
    IF fi > Len(fmt)
    THEN IF si > Len(s) THEN {acc} ELSE {}
    ELSE UNION { Parses(fmt, s, fi + 1, si + n, FieldPut(fmt[fi], acc, SubSeq(s, si, si + n - 1))) :
                 n \in {n \in FieldLens(fmt[fi], Len(s) - si + 1) :
                            FieldOk(fmt[fi], SubSeq(s, si, si + n - 1))} }

IsLeap(y) == (y % 4 = 0 /\ y % 100 # 0) \/ y % 400 = 0
DaysIn(m, y) ==
    CASE m = 2 -> IF IsLeap(y) THEN 29 ELSE 28
      [] m \in {4, 6, 9, 11} -> 30
      [] OTHER -> 31
ValidDate(p) == p.y >= 1 /\ p.m \in 1..12 /\ p.d >= 1 /\ p.d <= DaysIn(p.m, p.y)

\* datetime.strptime(s, fmt): the date, or ValueError.
Strptime(s, fmt) ==
    LET P == Parses(fmt, s, 1, 1, NoDate)
    IN  IF P # {} /\ ValidDate(CHOOSE p \in P : TRUE)
        THEN [status |-> "ok", date |-> CHOOSE p \in P : TRUE]
        ELSE [status |-> "ValueError", date |-> NoDate]

\* dt.strftime("%d-%b-%Y"): the day in two digits, the year as the platform
\* prints it. For a year below 1000 that depends on the C library and on the
\* interpreter: glibc prints the number as it is ("999"), others pad it to
\* four digits ("0999").
Pad2(n) == <<Digits[(n \div 10) + 1], Digits[(n % 10) + 1]>>
Pad4(n) == Pad2(n \div 100) \o Pad2(n % 100)
YearText(y) == IF year_padded THEN Pad4(y) ELSE Decimal(y)
Strftime(date) == Pad2(date.d) \o <<"-">> \o MonthAbbr[date.m] \o <<"-">> \o YearText(date.y)

\* One turn of the loop body: date_str.strip() raises AttributeError for a
\* value that is not text.
Attempt(date_str, fmt) ==
    IF date_str.kind # "str"
    THEN [status |-> "AttributeError", date |-> NoDate]
    ELSE Strptime(Strip(date_str.chars), fmt)

date_formatsMonthFirst ==
    << <<"%d", "-", "%b", "-", "%Y">>,
       <<"%m", "/", "%d", "/", "%Y">>,
       <<"%Y", "-", "%m", "-", "%d">>,
       <<"%d", "/", "%m", "/", "%Y">>,
       <<"%d", " ", "%b", " ", "%Y">>,
       <<"%b", " ", "%d", ",", " ", "%Y">>,
       <<"%Y", ".", "%m", ".", "%d">>,
       <<"%d", ".", "%m", ".", "%Y">> >>
date_formats ==
    << <<"%d", "-", "%b", "-", "%Y">>,
       <<"%d", "/", "%m", "/", "%Y">>,
       <<"%Y", "-", "%m", "-", "%d">>,
       <<"%m", "/", "%d", "/", "%Y">>,
       <<"%d", " ", "%b", " ", "%Y">>,
       <<"%b", " ", "%d", ",", " ", "%Y">>,
       <<"%Y", ".", "%m", ".", "%d">>,
       <<"%d", ".", "%m", ".", "%Y">> >>

\* except Exception: continue
CaughtValueErrorOnly(exc) == exc = "ValueError"
Caught(exc) == TRUE

RECURSIVE TryFormats(_, _, _)
TryFormats(date_str, formats, k) ==
    IF k > Len(formats)
    THEN None
    ELSE LET r == Attempt(date_str, formats[k])
         IN  IF r.status = "ok" THEN Text(Strftime(r.date))
             ELSE IF Caught(r.status) THEN TryFormats(date_str, formats, k + 1)
             ELSE Raised

parse_date_string(date_str) == TryFormats(date_str, date_formats, 1)

\* ------------------------------------- combine_responses: tags and date

\* A page's parsed JSON with the fields combine_responses reads.
DatedPage(f, date, tags) ==
    PageRecord(f, TRUE, [kind |-> "dict", text |-> f, date |-> date, tags |-> tags])

\* list(chain.from_iterable(all_tags))
RECURSIVE Chain(_)
Chain(lists) == IF lists = <<>> THEN <<>> ELSE Head(lists) \o Chain(Tail(lists))

\* The lists that hold each element of S once.
Orderings(S) == {f \in [1..Cardinality(S) -> S] : Range(f) = S}

\* list(set(flat_tags)): the lists the call may return (a set has no order).
unique_tagsKeepAll(flat_tags) == {flat_tags}
unique_tags(flat_tags) == Orderings(Range(flat_tags))

\* if date_str: the truth value of a page's date.
Truthy(v) ==
    CASE v.kind = "str" -> v.chars # <<>>
      [] v.kind = "int" -> TRUE
      [] OTHER -> FALSE

\* parse_date_string(date_str) if date_str else None
Coerced(v) == IF Truthy(v) THEN parse_date_string(v) ELSE None

\* The order of datetime values.
DateLess(a, b) ==
    \/ a.y < b.y
    \/ (a.y = b.y /\ a.m < b.m)
    \/ (a.y = b.y /\ a.m = b.m /\ a.d < b.d)

\* parsed_dates: for every page whose date is coerced, the coerced text with
\* the datetime strptime re-reads from it.
RECURSIVE parsed_dates(_)
parsed_dates(dates) ==
    IF dates = <<>> THEN <<>>
    ELSE LET c == Coerced(Head(dates))
         IN  IF c.kind = "raise" THEN <<[dt |-> [status |-> "raise", date |-> NoDate], coerced |-> c]>>
             ELSE IF Truthy(c)
             THEN <<[dt |-> Strptime(c.chars, <<"%d", "-", "%b", "-", "%Y">>), coerced |-> c]>>
                      \o parsed_dates(Tail(dates))
             ELSE parsed_dates(Tail(dates))

\* The document date: the coerced date of the first of the pages of the
\* earliest date (the sort is stable), or dates[0] when no page has one.
earliest_dateFirstParsed(dates) ==
    LET pd == parsed_dates(dates)
    IN  IF \E k \in DOMAIN pd : pd[k].dt.status # "ok" THEN Raised
        ELSE IF pd = <<>> THEN dates[1]
        ELSE pd[1].coerced
earliest_date(dates) ==
    LET pd == parsed_dates(dates)
    IN  IF \E k \in DOMAIN pd : pd[k].dt.status # "ok" THEN Raised
        ELSE IF pd = <<>> THEN dates[1]
        ELSE pd[CHOOSE k \in DOMAIN pd :
                  /\ \A j \in DOMAIN pd : ~DateLess(pd[j].dt.date, pd[k].dt.date)
                  /\ \A j \in DOMAIN pd : j < k => DateLess(pd[k].dt.date, pd[j].dt.date)].coerced

\* -------------------------------------------------------- clean_json_text

Fence == <<"U+0060", "U+0060", "U+0060">>
FenceJson == <<"U+0060", "U+0060", "U+0060", "j", "s", "o", "n">>

StartsWith(t, p) == Len(t) >= Len(p) /\ SubSeq(t, 1, Len(p)) = p
EndsWith(t, p) == Len(t) >= Len(p) /\ SubSeq(t, Len(t) - Len(p) + 1, Len(t)) = p
Drop(t, n) == SubSeq(t, n + 1, Len(t))

\* Method 1: the code-fence markers.
StripFences(text) ==
    LET opened == IF StartsWith(text, FenceJson) THEN Drop(text, Len(FenceJson))
                  ELSE IF StartsWith(text, Fence) THEN Drop(text, Len(Fence))
                  ELSE text
    IN  IF EndsWith(opened, Fence) THEN SubSeq(opened, 1, Len(opened) - Len(Fence)) ELSE opened

\* unicodedata.normalize('NFKD', text): the compatibility decomposition of each
\* character.
Decompose(c) ==
    CASE c = "U+00E9" -> <<"e", "U+0301">>
      [] c = "U+2026" -> <<".", ".", ".">>
      [] c = "U+00A0" -> <<" ">>
      [] OTHER -> <<c>>
RECURSIVE NFKD(_)
NFKD(text) == IF text = <<>> THEN <<>> ELSE Decompose(Head(text)) \o NFKD(Tail(text))

\* The replacements dictionary as the interpreter reads it, in its order.  Its
\* first line holds straight quotes: the pair '"': '"' twice, and a key that
\* runs from one ''' to the next.
replacements ==
    << [old |-> <<"\"">>, new |-> <<"\"">>],
       [old |-> <<":", " ", "\"", "'", "\"", ",", " ">>, new |-> <<"'">>],
       [old |-> <<"U+2014">>, new |-> <<"-">>],
       [old |-> <<"U+2013">>, new |-> <<"-">>],
       [old |-> <<"U+2026">>, new |-> <<".", ".", ".">>],
       [old |-> <<"U+201A">>, new |-> <<",">>],
       [old |-> <<"U+201E">>, new |-> <<"\"">>],
       [old |-> <<"U+2039">>, new |-> <<"<">>],
       [old |-> <<"U+203A">>, new |-> <<">">>],
       [old |-> <<"U+00AB">>, new |-> <<"\"">>],
       [old |-> <<"U+00BB">>, new |-> <<"\"">>],
       [old |-> <<"U+00A0">>, new |-> <<" ">>],
       [old |-> <<"U+2028">>, new |-> <<"\n">>],
       [old |-> <<"U+2029">>, new |-> <<"\n", "\n">>] >>

\* text.replace(old, new)
RECURSIVE Replace(_, _, _)
Replace(text, old, new) ==
    IF Len(text) < Len(old) THEN text
    ELSE IF StartsWith(text, old) THEN new \o Replace(Drop(text, Len(old)), old, new)
    ELSE <<Head(text)>> \o Replace(Tail(text), old, new)

\* for old, new in replacements.items(): text = text.replace(old, new)
RECURSIVE ReplaceEach(_, _, _)
ReplaceEach(text, table, k) ==
    IF k > Len(table) THEN text
    ELSE ReplaceEach(Replace(text, table[k].old, table[k].new), table, k + 1)

\* Method 3: the characters of [\x00-\x08\x0b\x0c\x0e-\x1f\x7f-\x9f] (the tab,
\* the line feed and the carriage return are outside the class).
IsControlC0Only(c) == c \in {"U+0000", "U+0007", "U+000B", "U+000C", "U+001B"}
IsControl(c) == c \in {"U+0000", "U+0007", "U+000B", "U+000C", "U+001B", "U+007F", "U+0085"}
RemoveControls(text) == SelectSeq(text, LAMBDA c : ~IsControl(c))

clean_json_text(text) ==
    RemoveControls(ReplaceEach(NFKD(Strip(StripFences(Strip(text)))), replacements, 1))

\* json.loads, for the documents the model draws: an object with one member,
\* a string under a string key ({"a": "b"}); any other text is refused.
JsonError == [ok |-> FALSE, key |-> <<>>, value |-> <<>>]
IsJsonSpace(c) == c \in {" ", "\t", "\n", "\r"}
IsStringChar(c) == c \notin {"\"", "\\", "\t", "\n", "\r", "U+0000", "U+0007", "U+000B", "U+000C", "U+001B"}

RECURSIVE SkipSpace(_, _)
SkipSpace(t, k) == IF k <= Len(t) /\ IsJsonSpace(t[k]) THEN SkipSpace(t, k + 1) ELSE k

\* The position of the quote that closes the string opened before position k
\* (0: there is none).
RECURSIVE StringEnd(_, _)
StringEnd(t, k) ==
    IF k > Len(t) THEN 0
    ELSE IF t[k] = "\"" THEN k
    ELSE IF IsStringChar(t[k]) THEN StringEnd(t, k + 1)
    ELSE 0

At(t, k, c) == k <= Len(t) /\ t[k] = c

json_loads(t) ==
    LET b == SkipSpace(t, 1)
        k1 == SkipSpace(t, b + 1)
        k2 == IF At(t, k1, "\"") THEN StringEnd(t, k1 + 1) ELSE 0
        c == SkipSpace(t, k2 + 1)
        v1 == SkipSpace(t, c + 1)
        v2 == IF At(t, v1, "\"") THEN StringEnd(t, v1 + 1) ELSE 0
        e == SkipSpace(t, v2 + 1)
    IN  IF /\ At(t, b, "{")
           /\ k2 > 0
           /\ At(t, c, ":")
           /\ v2 > 0
           /\ At(t, e, "}")
           /\ SkipSpace(t, e + 1) > Len(t)
        THEN [ok |-> TRUE, key |-> SubSeq(t, k1 + 1, k2 - 1), value |-> SubSeq(t, v1 + 1, v2 - 1)]
        ELSE JsonError

\* ---------------------------------------------------------- app.py

NoHttp == [code |-> 0, kind |-> "none", groups_processed |-> 0, total_groups |-> 0,
           failed_groups |-> <<>>]
ErrorResponse(code) == [code |-> code, kind |-> "error", groups_processed |-> 0,
                        total_groups |-> 0, failed_groups |-> <<>>]

\* The freshly imported module's progress record.
IdleProgress ==
    [status |-> "idle", current_group |-> 0, total_groups |-> 0, current_step |-> <<"">>,
     completed_groups |-> 0, failed_groups |-> <<>>, percentage |-> 0]

\* int((k / n) * 100)
PercentFraction(k, n) == k \div n
PercentRemaining(k, n) == ((n - k) * 100) \div n
Percent(k, n) == (k * 100) \div n

\* The descriptor appended to failed_groups: f'{group_name} (OCR)' for a stage
\* that exited non-zero, f'{group_name} (error: {str(e)})' for a raised exception.
StageLabel(stage) ==
    CASE stage = "resize" -> "image processing"
      [] stage = "ocr" -> "OCR"
      [] stage = "text" -> "text conversion"
FailDescriptor(name, stage, how) ==
    [group |-> name, reason |-> IF how = "raise" THEN "error" ELSE StageLabel(stage)]

\* The loop index after a failed group (continue).
AfterFailedGroupBreak(k, n) == n
AfterFailedGroup(k, n) == k + 1

\* The status code of the final response.
StatusCodeNoPartial(completed, failed) == IF completed = 0 THEN 500 ELSE 200
StatusCode(completed, failed) ==
    IF completed = 0 THEN 500
    ELSE IF failed # <<>> THEN 207
    ELSE 200

\* The final processing_progress.update: the status a finished run is given.
FinalStatusUnset(completed) == "processing"
FinalStatus(completed) == "completed"

\* The outer except: the run ends with status error.
ErrorHandler ==
    /\ processing_progress' = [processing_progress EXCEPT
            !.status = "error", !.current_step = <<"Error">>, !.percentage = 0]
    /\ http' = ErrorResponse(500)
    /\ opc' = "idle"

\* A stage of group i fails: recorded, and on to the next group.
GroupFails(stage, how) ==
    /\ failed_groups' = Append(failed_groups, FailDescriptor(GroupName(i), stage, how))
    /\ failedAt' = Append(failedAt, [group |-> i + 1, stage |-> stage, how |-> how])
    /\ i' = AfterFailedGroup(i, total_groups)
    /\ opc' = "loop"

\* A request without groups is refused.
RejectEmpty ==
    /\ opc = "idle"
    /\ http' = ErrorResponse(400)
    /\ UNCHANGED <<opc, total_groups, folder, i, completed_groups, failed_groups, processing_progress,
                   attempts, failedAt>>
    /\ UNCHANGED <<passVars, cacheVars, histVars, pureVars>>

\* Clearing the input folder or copying the images raises.
SetupRaises ==
    /\ opc = "idle"
    /\ ErrorHandler
    /\ UNCHANGED <<total_groups, folder, i, completed_groups, failed_groups, attempts, failedAt>>
    /\ UNCHANGED <<passVars, cacheVars, histVars, pureVars>>

\* A request is accepted: folders set up, progress reset.
StartRun ==
    /\ opc = "idle"
    /\ \E n \in 1..MaxGroups :
        /\ total_groups' = n
        /\ processing_progress' =
              [status |-> "processing", total_groups |-> n, current_group |-> 0,
               current_step |-> <<"Starting processing">>, completed_groups |-> 0,
               failed_groups |-> <<>>, percentage |-> 0]
    /\ folder' = {}
    /\ completed_groups' = 0
    /\ failed_groups' = <<>>
    /\ i' = 0
    /\ opc' = "loop"
    /\ attempts' = <<>>
    /\ failedAt' = <<>>
    /\ http' = NoHttp
    /\ exports' = <<>>
    /\ ocr_log' = <<>>
    /\ counted' = <<>>
    /\ UNCHANGED <<passVars, cacheVars, pureVars>>

\* The pass variables of a subprocess that has gone.
PassCleared ==
    /\ tpc' = "off"
    /\ responses' = EmptyMap
    /\ image_list' = <<>>
    /\ uuid' = NoUuid
    /\ response_dict' = NoDict
    /\ individual_responses' = <<>>
    /\ idx' = 0
    /\ all_individual_responses' = NoCombined
    /\ returncode' = 0
    /\ call_log' = <<>>
    /\ wrote' = FALSE

\* The loop takes the next group.
GroupBegin ==
    /\ opc = "loop"
    /\ i < total_groups
    /\ processing_progress' = [processing_progress EXCEPT
            !.current_group = i + 1,
            !.current_step = <<"Processing group", GroupName(i)>>,
            !.percentage = Percent(i, total_groups)]
    /\ attempts' = Append(attempts, i + 1)
    /\ \E imgs \in GroupMenu : folder' = imgs
    /\ opc' = "resize"
    /\ PassCleared
    /\ ocr_log' = <<>>
    /\ UNCHANGED <<total_groups, i, completed_groups, failed_groups, http, failedAt>>
    /\ UNCHANGED <<cacheVars, exports, counted, pureVars>>

\* process_images.py for the group.
ResizeStage ==
    /\ opc = "resize"
    /\ processing_progress' = [processing_progress EXCEPT
            !.current_step = <<"Resizing images for", GroupName(i)>>]
    /\ \E out \in StageOutcomes :
        IF out = "ok"
        THEN opc' = "ocr" /\ UNCHANGED <<i, failed_groups, failedAt>>
        ELSE GroupFails("resize", out)
    /\ UNCHANGED <<total_groups, folder, completed_groups, http, attempts>>
    /\ UNCHANGED <<passVars, cacheVars, histVars, pureVars>>

\* googlevision-translater.py for the group.
OcrStage ==
    /\ opc = "ocr"
    /\ processing_progress' = [processing_progress EXCEPT
            !.current_step = <<"Running OCR for", GroupName(i)>>]
    /\ \E out \in StageOutcomes :
        /\ ocr_log' = IF out = "raise" THEN ocr_log ELSE Append(ocr_log, "run")
        /\ IF out = "ok"
           THEN opc' = "text" /\ UNCHANGED <<i, failed_groups, failedAt>>
           ELSE GroupFails("ocr", out)
    /\ UNCHANGED <<total_groups, folder, completed_groups, http, attempts>>
    /\ UNCHANGED <<passVars, cacheVars, exports, counted, pureVars>>

\* gpt4-note-translater.py for the group: the subprocess starts, or
\* subprocess.run raises.
TextStage ==
    /\ opc = "text"
    /\ processing_progress' = [processing_progress EXCEPT
            !.current_step = <<"Converting text for", GroupName(i)>>]
    /\ \/ /\ opc' = "wait_text"
          /\ tpc' = "start"
          /\ UNCHANGED <<i, failed_groups, failedAt>>
       \/ /\ GroupFails("text", "raise")
          /\ UNCHANGED tpc
    /\ UNCHANGED <<total_groups, folder, completed_groups, http, attempts>>
    /\ UNCHANGED <<responses, image_list, uuid, response_dict, individual_responses, idx,
                   all_individual_responses, returncode, call_log, wrote>>
    /\ UNCHANGED <<cacheVars, histVars, pureVars>>

\* The DocumentRecord the pass ended with: read from the cache, or built and stored.
YieldedRecord ==
    CASE response_dict.shape = "record" -> response_dict.rec
      [] response_dict.shape = "mapping" -> response_dict.map[uuid]
      [] OTHER -> EmptyMap

\* The subprocess has ended: its exit code decides.
TextDone ==
    /\ opc = "wait_text"
    /\ tpc = "exit"
    /\ tpc' = "gone"
    /\ prev' = [uuid |-> uuid,
                stored |-> (returncode = 0 /\ response_dict.shape # "empty"),
                rec |-> YieldedRecord]
    /\ IF returncode # 0
       THEN /\ GroupFails("text", "nonzero")
            /\ UNCHANGED <<completed_groups, processing_progress, counted>>
       ELSE /\ completed_groups' = completed_groups + 1
            /\ counted' = Append(counted, uuid)
            /\ processing_progress' = [processing_progress EXCEPT
                    !.completed_groups = completed_groups + 1,
                    !.current_step = <<"Completed", GroupName(i)>>,
                    !.percentage = Percent(i + 1, total_groups)]
            /\ i' = i + 1
            /\ opc' = "loop"
            /\ UNCHANGED <<failed_groups, failedAt>>
    /\ UNCHANGED <<total_groups, folder, http, attempts>>
    /\ UNCHANGED <<responses, image_list, uuid, response_dict, individual_responses, idx,
                   all_individual_responses, returncode, call_log, wrote>>
    /\ UNCHANGED <<cache_file, everStored, exports, ocr_log, pureVars>>

\* if completed_groups > 0: the export runs for a batch with a completed group.
ExportDueAlways(completed) == TRUE
ExportDue(completed) == completed > 0

\* Every group has been attempted.
LoopExit ==
    /\ opc = "loop"
    /\ i >= total_groups
    /\ opc' = IF ExportDue(completed_groups) THEN "export" ELSE "cleanup"
    /\ PassCleared
    /\ ocr_log' = <<>>
    /\ UNCHANGED <<total_groups, folder, i, completed_groups, failed_groups, processing_progress, http,
                   attempts, failedAt>>
    /\ UNCHANGED <<cacheVars, exports, counted, pureVars>>

\* export_responses.py, once for the batch; a non-zero exit is only logged.
ExportStage ==
    /\ opc = "export"
    /\ \E out \in StageOutcomes :
        /\ exports' = Append(exports, out)
        /\ IF out = "raise"
           THEN ErrorHandler
           ELSE /\ processing_progress' = [processing_progress EXCEPT
                       !.current_step = <<"Exporting results">>]
                /\ opc' = "cleanup"
                /\ UNCHANGED http
    /\ UNCHANGED <<total_groups, folder, i, completed_groups, failed_groups, attempts, failedAt>>
    /\ UNCHANGED <<passVars, cacheVars, ocr_log, counted, pureVars>>

\* The temp files are removed (os.listdir or os.remove may raise).
Cleanup ==
    /\ opc = "cleanup"
    /\ \/ /\ processing_progress' = [processing_progress EXCEPT
                  !.current_step = <<"Cleaning up temporary files">>]
          /\ opc' = "final"
          /\ UNCHANGED http
       \/ ErrorHandler
    /\ UNCHANGED <<total_groups, folder, i, completed_groups, failed_groups, attempts, failedAt>>
    /\ UNCHANGED <<passVars, cacheVars, histVars, pureVars>>

\* The final progress update and the response.
Finish ==
    /\ opc = "final"
    /\ processing_progress' = [processing_progress EXCEPT
            !.status = FinalStatus(completed_groups),
            !.current_step = <<"Processing complete">>,
            !.percentage = 100,
            !.completed_groups = completed_groups,
            !.failed_groups = failed_groups]
    /\ http' = [code |-> StatusCode(completed_groups, failed_groups), kind |-> "report",
                groups_processed |-> completed_groups, total_groups |-> total_groups,
                failed_groups |-> failed_groups]
    /\ opc' = "idle"
    /\ UNCHANGED <<total_groups, folder, i, completed_groups, failed_groups, attempts, failedAt>>
    /\ UNCHANGED <<passVars, cacheVars, histVars, pureVars>>

\* ------------------------------------------------------------ specification

NoFpIn == [folderA |-> GroupName(0), listA |-> <<>>, folderB |-> GroupName(0), listB |-> <<>>]
NoFpOut == [done |-> FALSE, a |-> NoUuid, b |-> NoUuid]
NoArg == [fn |-> "none"]
NoHandlers == <<>>
NoResult == [done |-> FALSE]

PipelineInit ==
    /\ opc = "idle"
    /\ total_groups = 0
    /\ folder = {}
    /\ i = 0
    /\ completed_groups = 0
    /\ failed_groups = <<>>
    /\ processing_progress = IdleProgress
    /\ http = NoHttp
    /\ attempts = <<>>
    /\ failedAt = <<>>
    /\ tpc = "off"
    /\ cache_file = EmptyMap
    /\ responses = EmptyMap
    /\ image_list = <<>>
    /\ uuid = NoUuid
    /\ response_dict = NoDict
    /\ individual_responses = <<>>
    /\ idx = 0
    /\ all_individual_responses = NoCombined
    /\ returncode = 0
    /\ call_log = <<>>
    /\ wrote = FALSE
    /\ prev = NoPrev
    /\ everStored = {}
    /\ exports = <<>>
    /\ ocr_log = <<>>
    /\ counted = <<>>

Init ==
    /\ PipelineInit
    /\ fp_in = NoFpIn
    /\ fp_out = NoFpOut
    /\ arg = NoArg
    /\ result = NoResult
    /\ year_padded = FALSE
    /\ handlers = NoHandlers

Next ==
    \/ RejectEmpty
    \/ SetupRaises
    \/ StartRun
    \/ GroupBegin
    \/ ResizeStage
    \/ OcrStage
    \/ TextStage
    \/ T_Start
    \/ T_PageCall
    \/ T_Aggregate
    \/ T_SummaryCall
    \/ TextDone
    \/ LoopExit
    \/ ExportStage
    \/ Cleanup
    \/ Finish

Spec == Init /\ [][Next]_vars

\* ------------------------------------------- generate_uuid on its own

\* File names a list may hold; "a-b" holds the separator of the joined text.
FpFiles == {FileA, FileB, FileAB}
FpLists == UNION {[1..n -> FpFiles] : n \in 0..MaxList}

FpInit ==
    /\ PipelineInit
    /\ fp_in \in [folderA : {GroupName(0)}, listA : FpLists,
                  folderB : {GroupName(0), GroupName(1)}, listB : FpLists]
    /\ fp_out = NoFpOut
    /\ arg = NoArg
    /\ result = NoResult
    /\ year_padded = FALSE
    /\ handlers = NoHandlers

\* Two folders are fingerprinted as the main loop does it.
FpCompute ==
    /\ ~fp_out.done
    /\ fp_out' = [done |-> TRUE,
                  a |-> GroupUuid(fp_in.folderA, fp_in.listA),
                  b |-> GroupUuid(fp_in.folderB, fp_in.listB)]
    /\ UNCHANGED <<fp_in, fnVars, handlers, orchVars, passVars, cacheVars, histVars>>

FpNext == FpCompute

FpSpec == FpInit /\ [][FpNext]_vars

\* ------------------------------------------- parse_date_string on its own

\* The pieces a date text is put together from, and the separators between them.
DateTokens ==
    { <<"1">>, <<"0", "1">>, <<"0", "2">>, <<"0", "8">>, <<"1", "3">>, <<"3", "1">>,
      <<"2", "0", "2", "5">>, <<"0", "9", "9", "9">>, <<"A", "u", "g">>, <<"a", "u", "g">>, <<"F", "e", "b">> }
DateSeparators ==
    { << <<"-">>, <<"-">> >>, << <<"/">>, <<"/">> >>, << <<" ">>, <<" ">> >>,
      << <<" ">>, <<",", " ">> >>, << <<".">>, <<".">> >> }
DateTexts ==
    { t[1] \o s[1] \o t[2] \o s[2] \o t[3] : t \in [1..3 -> DateTokens], s \in DateSeparators }
      \cup { <<>>,
             <<"s", "o", "o", "n">>,
             <<" ", "0", "1", "/", "0", "8", "/", "2", "0", "2", "5", "\n">>,
             <<"0", "1", "/", "0", "8", "/", "2", "0", "2", "5", "x">>,
             <<"A", "u", "g", " ", " ", "1", ",", " ", "2", "0", "2", "5">>,
             <<"2", "9", "-", "F", "e", "b", "-", "2", "0", "2", "4">> }
DateValues == {Text(t) : t \in DateTexts} \cup {None, IntValue}

DateInit ==
    /\ PipelineInit
    /\ fp_in = NoFpIn
    /\ fp_out = NoFpOut
    /\ arg \in {[fn |-> "date", value |-> v] : v \in DateValues}
    /\ result = NoResult
    /\ year_padded \in BOOLEAN
    /\ handlers = NoHandlers

\* parse_date_string is called with the value.
DateCompute ==
    /\ arg.fn = "date"
    /\ ~result.done
    /\ result' = [done |-> TRUE, out |-> parse_date_string(arg.value)]
    /\ UNCHANGED <<arg, year_padded, handlers, fpVars, orchVars, passVars, cacheVars, histVars>>

DateNext == DateCompute

DateSpec == DateInit /\ [][DateNext]_vars

\* ------------------------------------------- combine_responses on its own

\* The dates and the tag lists a page's JSON may hold.
PageDates ==
    { None,
      Text(<<"1", "5", "-", "M", "a", "r", "-", "2", "0", "2", "4">>),
      Text(<<"2", "-", "J", "a", "n", "-", "2", "0", "2", "4">>),
      Text(<<"0", "2", "/", "0", "1", "/", "2", "0", "2", "4">>),
      Text(<<"0", "9", "9", "9", "-", "0", "1", "-", "0", "1">>),
      Text(<<"s", "o", "o", "n">>) }
PageTags == { <<>>, <<"history", "1800s">>, <<"history", "letter">> }
AggPages ==
    UNION { [1..n -> {DatedPage(FileA, d, t) : d \in PageDates, t \in PageTags}] : n \in 1..MaxPages }

AggInit ==
    /\ PipelineInit
    /\ fp_in = NoFpIn
    /\ fp_out = NoFpOut
    /\ arg \in {[fn |-> "agg", pages |-> p] : p \in AggPages}
    /\ result = NoResult
    /\ year_padded \in BOOLEAN
    /\ handlers = NoHandlers

\* combine_responses is called with the PageRecords (a date of kind "raise"
\* in the result stands for the call raising).
AggCompute ==
    /\ arg.fn = "agg"
    /\ ~result.done
    /\ LET pages == arg.pages
           all_tags == [k \in DOMAIN pages |-> pages[k].transcription.tags]
           dates == [k \in DOMAIN pages |-> pages[k].transcription.date]
       IN  \E tags \in unique_tags(Chain(all_tags)) :
               result' = [done |-> TRUE,
                          out |-> [transcription |-> combine_responses(pages).transcription,
                                   date |-> earliest_date(dates),
                                   tags |-> tags]]
    /\ UNCHANGED <<arg, year_padded, handlers, fpVars, orchVars, passVars, cacheVars, histVars>>

AggNext == AggCompute

AggSpec == AggInit /\ [][AggNext]_vars

\* ------------------------------------------- clean_json_text on its own

\* The document {"a": "<value>"} in straight quotes, and as a model writes it
\* with typographic ones.
ContentChars == {"b", "'", "U+00E9", "\t", "\r", "U+0007", "U+0085"}
Contents == UNION {[1..n -> ContentChars] : n \in 0..MaxContent}
Document(key, value) ==
    <<"{", "\"">> \o key \o <<"\"", ":", " ", "\"">> \o value \o <<"\"", "}">>
Typographic(key, value) ==
    <<"{", "U+201C">> \o key \o <<"U+201D", ":", " ", "U+201C">>
        \o [k \in DOMAIN value |-> IF value[k] = "'" THEN "U+2019" ELSE value[k]]
        \o <<"U+201D", "}">>

\* The response text: the document, bare or inside a code fence.
FenceTags == [none |-> <<>>, plain |-> <<>>, json |-> <<"j", "s", "o", "n">>,
              JSON |-> <<"J", "S", "O", "N">>]
ResponseText(fence, quotes, key, value) ==
    LET body == IF quotes = "straight" THEN Document(key, value) ELSE Typographic(key, value)
    IN  IF fence = "none" THEN body
        ELSE Fence \o FenceTags[fence] \o <<"\n">> \o body \o <<"\n">> \o Fence \o <<"\n">>

CleanInit ==
    /\ PipelineInit
    /\ fp_in = NoFpIn
    /\ fp_out = NoFpOut
    /\ arg \in {[fn |-> "clean", fence |-> f, quotes |-> q, key |-> <<"a">>, value |-> v,
                 text |-> ResponseText(f, q, <<"a">>, v)] :
                    f \in DOMAIN FenceTags, q \in {"straight", "typographic"}, v \in Contents}
    /\ result = NoResult
    /\ year_padded = FALSE
    /\ handlers = NoHandlers

\* A response is cleaned and handed to json.loads.
CleanCompute ==
    /\ arg.fn = "clean"
    /\ ~result.done
    /\ result' = [done |-> TRUE,
                  out |-> [cleaned |-> clean_json_text(arg.text),
                           parsed |-> json_loads(clean_json_text(arg.text))]]
    /\ UNCHANGED <<arg, year_padded, handlers, fpVars, orchVars, passVars, cacheVars, histVars>>

CleanNext == CleanCompute

CleanSpec == CleanInit /\ [][CleanNext]_vars

\* ------------------------------------- process_images, two requests at a time

\* The development server serves each request in a thread of its own: the
\* handlers of two process requests run side by side, each with its own local
\* variables, and both write the one module-level processing_progress. Every
\* processing_progress.update(...) is one step.
Requests == {"first", "second"}

IdleHandler == [pc |-> "idle", groups |-> 0, i |-> 0, completed_groups |-> 0,
                failed_groups |-> <<>>, code |-> 0]

\* The first request has not come yet.
RaceInit ==
    /\ PipelineInit
    /\ fp_in = NoFpIn
    /\ fp_out = NoFpOut
    /\ arg = NoArg
    /\ result = NoResult
    /\ year_padded = FALSE
    /\ handlers = [r \in Requests |-> IdleHandler]

RaceFrame ==
    UNCHANGED <<opc, total_groups, folder, i, completed_groups, failed_groups, http, attempts,
                failedAt, passVars, cacheVars, histVars, fpVars, fnVars>>

\* The outer except of the handler of request r.
R_ErrorHandler(r) ==
    /\ processing_progress' = [processing_progress EXCEPT
            !.status = "error", !.current_step = <<"Error">>, !.percentage = 0]
    /\ handlers' = [handlers EXCEPT ![r].pc = "idle", ![r].code = 500]

\* A stage of the group in hand fails: recorded, and on to the next group.
R_GroupFails(r, stage, how) ==
    LET h == handlers[r]
    IN  handlers' = [handlers EXCEPT
            ![r].failed_groups = Append(h.failed_groups, FailDescriptor(GroupName(h.i), stage, how)),
            ![r].i = AfterFailedGroup(h.i, h.groups),
            ![r].pc = "loop"]

\* A request without groups is refused.
R_RejectEmpty(r) ==
    /\ handlers[r].pc = "idle"
    /\ handlers' = [handlers EXCEPT ![r].code = 400]
    /\ UNCHANGED processing_progress
    /\ RaceFrame

\* Clearing the input folder or copying the images raises.
R_SetupRaises(r) ==
    /\ handlers[r].pc = "idle"
    /\ R_ErrorHandler(r)
    /\ RaceFrame

\* A request is accepted: folders set up, progress reset.
R_StartRun(r) ==
    /\ handlers[r].pc = "idle"
    /\ \E n \in 1..MaxGroups :
        /\ handlers' = [handlers EXCEPT
                ![r] = [pc |-> "loop", groups |-> n, i |-> 0, completed_groups |-> 0,
                        failed_groups |-> <<>>, code |-> 0]]
        /\ processing_progress' =
              [status |-> "processing", total_groups |-> n, current_group |-> 0,
               current_step |-> <<"Starting processing">>, completed_groups |-> 0,
               failed_groups |-> <<>>, percentage |-> 0]
    /\ RaceFrame

\* The loop takes the next group.
R_GroupBegin(r) ==
    LET h == handlers[r]
    IN  /\ h.pc = "loop"
        /\ h.i < h.groups
        /\ processing_progress' = [processing_progress EXCEPT
                !.current_group = h.i + 1,
                !.current_step = <<"Processing group", GroupName(h.i)>>,
                !.percentage = Percent(h.i, h.groups)]
        /\ handlers' = [handlers EXCEPT ![r].pc = "resize"]
        /\ RaceFrame

\* process_images.py, then googlevision-translater.py for the group.
R_Stage(r, stage, label, next) ==
    /\ handlers[r].pc = stage
    /\ processing_progress' = [processing_progress EXCEPT
            !.current_step = <<label, GroupName(handlers[r].i)>>]
    /\ \E out \in StageOutcomes :
        IF out = "ok"
        THEN handlers' = [handlers EXCEPT ![r].pc = next]
        ELSE R_GroupFails(r, stage, out)
    /\ RaceFrame

\* gpt4-note-translater.py for the group, and what follows its exit.
R_TextStage(r) ==
    LET h == handlers[r]
    IN  /\ h.pc = "text"
        /\ processing_progress' = [processing_progress EXCEPT
                !.current_step = <<"Converting text for", GroupName(h.i)>>]
        /\ \/ handlers' = [handlers EXCEPT ![r].pc = "wait_text"]
           \/ R_GroupFails(r, "text", "raise")
        /\ RaceFrame

R_TextDone(r) ==
    LET h == handlers[r]
    IN  /\ h.pc = "wait_text"
        /\ \/ /\ R_GroupFails(r, "text", "nonzero")
              /\ UNCHANGED processing_progress
           \/ /\ handlers' = [handlers EXCEPT
                      ![r].completed_groups = h.completed_groups + 1,
                      ![r].i = h.i + 1,
                      ![r].pc = "loop"]
              /\ processing_progress' = [processing_progress EXCEPT
                      !.completed_groups = h.completed_groups + 1,
                      !.current_step = <<"Completed", GroupName(h.i)>>,
                      !.percentage = Percent(h.i + 1, h.groups)]
        /\ RaceFrame

\* Every group has been attempted.
R_LoopExit(r) ==
    LET h == handlers[r]
    IN  /\ h.pc = "loop"
        /\ h.i >= h.groups
        /\ handlers' = [handlers EXCEPT
                ![r].pc = IF ExportDue(h.completed_groups) THEN "export" ELSE "cleanup"]
        /\ UNCHANGED processing_progress
        /\ RaceFrame

\* export_responses.py, once for the batch.
R_ExportStage(r) ==
    /\ handlers[r].pc = "export"
    /\ \E out \in StageOutcomes :
        IF out = "raise"
        THEN R_ErrorHandler(r)
        ELSE /\ processing_progress' = [processing_progress EXCEPT
                    !.current_step = <<"Exporting results">>]
             /\ handlers' = [handlers EXCEPT ![r].pc = "cleanup"]
    /\ RaceFrame

\* The temp files are removed.
R_Cleanup(r) ==
    /\ handlers[r].pc = "cleanup"
    /\ \/ /\ processing_progress' = [processing_progress EXCEPT
                  !.current_step = <<"Cleaning up temporary files">>]
          /\ handlers' = [handlers EXCEPT ![r].pc = "final"]
       \/ R_ErrorHandler(r)
    /\ RaceFrame

\* The final progress update and the response.
R_Finish(r) ==
    LET h == handlers[r]
    IN  /\ h.pc = "final"
        /\ processing_progress' = [processing_progress EXCEPT
                !.status = FinalStatus(h.completed_groups),
                !.current_step = <<"Processing complete">>,
                !.percentage = 100,
                !.completed_groups = h.completed_groups,
                !.failed_groups = h.failed_groups]
        /\ handlers' = [handlers EXCEPT
                ![r].pc = "idle",
                ![r].code = StatusCode(h.completed_groups, h.failed_groups)]
        /\ RaceFrame

R_Resize(r) == R_Stage(r, "resize", "Resizing images for", "ocr")
R_Ocr(r) == R_Stage(r, "ocr", "Running OCR for", "text")

RaceNext ==
    \/ \E r \in DOMAIN handlers : R_RejectEmpty(r)
    \/ \E r \in DOMAIN handlers : R_SetupRaises(r)
    \/ \E r \in DOMAIN handlers : R_StartRun(r)
    \/ \E r \in DOMAIN handlers : R_GroupBegin(r)
    \/ \E r \in DOMAIN handlers : R_Resize(r)
    \/ \E r \in DOMAIN handlers : R_Ocr(r)
    \/ \E r \in DOMAIN handlers : R_TextStage(r)
    \/ \E r \in DOMAIN handlers : R_TextDone(r)
    \/ \E r \in DOMAIN handlers : R_LoopExit(r)
    \/ \E r \in DOMAIN handlers : R_ExportStage(r)
    \/ \E r \in DOMAIN handlers : R_Cleanup(r)
    \/ \E r \in DOMAIN handlers : R_Finish(r)

RaceSpec == RaceInit /\ [][RaceNext]_vars

\* ------------------------------------ process_images, one request at a time

\* The handler on its own, serving one request after the other. A handler that
\* has accepted a request keeps running, and every stage call it makes returns;
\* when the next request comes is up to the client.
OneRequestInit ==
    /\ PipelineInit
    /\ fp_in = NoFpIn
    /\ fp_out = NoFpOut
    /\ arg = NoArg
    /\ result = NoResult
    /\ year_padded = FALSE
    /\ handlers = [r \in {"first"} |-> IdleHandler]

RunStep == (\E r \in DOMAIN handlers : handlers[r].pc # "idle") /\ RaceNext

OneRequestSpec == OneRequestInit /\ [][RaceNext]_vars /\ WF_vars(RunStep)

\* ------------------------------------------------------------------ claims

\* A pass that has taken the miss branch (it has a fingerprint the loaded cache
\* did not hold).
MissPass == tpc \in {"page", "aggregate", "summary", "exit", "gone"} /\ image_list # <<>>
              /\ uuid \notin DOMAIN responses

\* The number of per-image model calls this pass has issued for file f.
PageCalls(f) == Cardinality({k \in DOMAIN call_log : call_log[k].filename = f})

\* C1: a store never drops or changes the record of another fingerprint: every
\* record the persisted cache holds is still there, unchanged, after any later
\* pass has stored its own.
C1_CommittedRecordsKept ==
    [][\A u \in DOMAIN cache_file :
          u # uuid => (u \in DOMAIN cache_file' /\ cache_file'[u] = cache_file[u])]_vars

\* C2: once a record has been stored for a fingerprint, no later pass for that
\* fingerprint issues a model call.
C2_NoCallAfterStore ==
    (call_log # <<>> /\ ~wrote) => uuid \notin everStored

\* C3: a pass for the group of the pass before it, which ended with a
\* DocumentRecord, ends with the same DocumentRecord read from the cache, has
\* issued no model call and has not rewritten the cache file.
C3_CacheIdempotence ==
    (tpc \in {"page", "aggregate", "summary", "exit"} /\ prev.stored /\ prev.uuid = uuid)
        => /\ tpc = "exit"
           /\ returncode = 0
           /\ response_dict.shape = "record"
           /\ response_dict.rec = prev.rec
           /\ call_log = <<>>
           /\ ~wrote
           /\ cache_file = responses

C3_Witness ==
    /\ tpc = "exit"
    /\ prev.stored
    /\ prev.uuid = uuid
    /\ response_dict.shape = "record"
    /\ Len(response_dict.rec.individual_responses) = 3

\* C4: two filename lists with the same set of names (in any order, with or
\* without repeated entries) get the same fingerprint, whatever the folders
\* are called.
C4_FingerprintOfTheSet ==
    (fp_out.done /\ Range(fp_in.listA) = Range(fp_in.listB)) => fp_out.a = fp_out.b

C4_Witness ==
    /\ fp_out.done
    /\ fp_in.folderA # fp_in.folderB
    /\ fp_in.listA = <<FileB, FileA, FileB>>
    /\ fp_in.listB = <<FileA, FileB>>
    /\ fp_out.a = fp_out.b

\* C5: in a cache-miss pass every image up to the loop index has had exactly one
\* per-page model call and no later image has had one; after the loop every
\* image has had exactly one, whatever the earlier calls did.
C5_EveryImageCalledOnce ==
    MissPass =>
        /\ tpc # "page" => idx = Len(image_list)
        /\ \A k \in DOMAIN image_list :
              PageCalls(image_list[k]) = IF k <= idx THEN 1 ELSE 0

C5_Witness ==
    /\ MissPass
    /\ tpc = "aggregate"
    /\ Len(image_list) = 3
    /\ call_log[1].outcome = "raise"
    /\ call_log[2].outcome = "badjson"
    /\ \A k \in DOMAIN image_list : PageCalls(image_list[k]) = 1

\* C6: after the per-page loop of a cache-miss pass there is one PageRecord per
\* image, in order, and the PageRecord of an image whose call raised or whose
\* response was not JSON has its validity flag false.
C6_OneRecordPerImage ==
    (MissPass /\ tpc = "aggregate") =>
        /\ Len(individual_responses) = Len(image_list)
        /\ \A k \in DOMAIN image_list :
              /\ individual_responses[k].filename = image_list[k]
              /\ call_log[k].outcome # "ok" => ~individual_responses[k].is_valid_json

\* C7: a 3-page group whose page 2 is not JSON while pages 1 and 3 are: the pass
\* stores a DocumentRecord made of the text of pages 1 and 3, exits 0, and the
\* orchestrator counts the group as completed, not as failed.
C7_BadPageKeepsGroup ==
    (/\ tpc = "gone"
     /\ Len(image_list) = 3
     /\ Len(call_log) >= 3
     /\ call_log[1].outcome = "ok"
     /\ call_log[2].outcome = "badjson"
     /\ call_log[3].outcome = "ok")
        => /\ returncode = 0
           /\ uuid \in DOMAIN cache_file
           /\ all_individual_responses.present
           /\ all_individual_responses.transcription = <<image_list[1], image_list[3]>>
           /\ \A k \in DOMAIN failed_groups : failed_groups[k].group # GroupName(i - 1)
           /\ completed_groups >= 1

\* The groups attempted so far are 1, 2, ... in order, each once, and none is
\* left out when the loop has ended.
AttemptedInOrder ==
    /\ attempts = [k \in 1..Len(attempts) |-> k]
    /\ opc \in {"resize", "ocr", "text", "wait_text"} => Len(attempts) = i + 1
    /\ opc = "loop" => Len(attempts) = i
    /\ opc \in {"export", "cleanup", "final", "idle"} => Len(attempts) = total_groups

\* C8 as stated: every group is attempted once, in order, and every failure is
\* recorded with the stage that failed.
C8_FailureNamesStage ==
    /\ AttemptedInOrder
    /\ Len(failed_groups) = Len(failedAt)
    /\ \A k \in DOMAIN failedAt :
          failed_groups[k] = [group |-> GroupName(failedAt[k].group - 1),
                              reason |-> StageLabel(failedAt[k].stage)]

\* C8, amended: every group is attempted once, in order, whatever failed before
\* it; a stage that exits non-zero is recorded with the stage, a raised exception
\* with the error text instead.
C8_FailureRecordedRunContinues ==
    /\ AttemptedInOrder
    /\ Len(failed_groups) = Len(failedAt)
    /\ \A k \in DOMAIN failedAt :
          failed_groups[k] = [group |-> GroupName(failedAt[k].group - 1),
                              reason |-> IF failedAt[k].how = "raise" THEN "error"
                                         ELSE StageLabel(failedAt[k].stage)]

C8_Witness ==
    /\ opc = "final"
    /\ total_groups = 2
    /\ attempts = <<1, 2>>
    /\ Len(failedAt) = 2
    /\ failedAt[1].how = "raise"
    /\ failedAt[2] = [group |-> 2, stage |-> "ocr", how |-> "nonzero"]

\* A run has ended with its final report.
Reported == opc = "idle" /\ http.kind = "report"

\* C9: a run that ends has status completed if a group succeeded and status
\* error if none did.
C9_FinalStatus ==
    Reported =>
        processing_progress.status =
            IF http.groups_processed >= 1 THEN "completed" ELSE "error"

\* The counts of the final report, and its classification.
ReportCounts ==
    /\ http.groups_processed = http.total_groups - Len(failedAt)
    /\ Len(http.failed_groups) = Len(failedAt)
    /\ http.groups_processed + Len(http.failed_groups) = http.total_groups
    /\ \A j, k \in DOMAIN failedAt : j < k => failedAt[j].group < failedAt[k].group
    /\ \A k \in DOMAIN failedAt :
          http.failed_groups[k].group = GroupName(failedAt[k].group - 1)
    /\ (0 < Len(failedAt) /\ Len(failedAt) < http.total_groups) => http.code = 207

\* C10 as stated: n-k completed, k descriptors, one per failed group, each naming
\* the stage at which the group failed; partial success when 0 < k < n.
C10_ReportNamesStages ==
    Reported =>
        /\ ReportCounts
        /\ \A k \in DOMAIN failedAt :
              http.failed_groups[k].reason = StageLabel(failedAt[k].stage)

\* C10, amended: as stated, except that the descriptor of a group whose stage
\* raised an exception carries the error text instead of the stage.
C10_ReportCounts ==
    Reported =>
        /\ ReportCounts
        /\ \A k \in DOMAIN failedAt :
              http.failed_groups[k].reason =
                  IF failedAt[k].how = "raise" THEN "error"
                  ELSE StageLabel(failedAt[k].stage)

C10_Witness ==
    /\ Reported
    /\ http.total_groups = 2
    /\ http.groups_processed = 1
    /\ http.code = 207
    /\ http.failed_groups = <<[group |-> GroupName(0), reason |-> "OCR"]>>

\* The run has left the per-group loop.
LoopLeft == opc \in {"export", "cleanup", "final", "idle"} /\ total_groups > 0

\* C11: the export runs at most once per request and never before every group
\* has been attempted; once the loop is left it has run exactly once if a group
\* completed and not at all if none did; an export that exits non-zero leaves
\* the reported counts and the classification of the run as the groups made them.
C11_ExportOncePerBatch ==
    /\ Len(exports) <= 1
    /\ exports # <<>> =>
          /\ Len(attempts) = total_groups
          /\ i >= total_groups
          /\ opc \in {"cleanup", "final", "idle"}
    /\ (LoopLeft /\ opc # "export") =>
          Len(exports) = IF Len(failedAt) < total_groups THEN 1 ELSE 0
    /\ (Reported /\ exports = <<"nonzero">>) =>
          /\ http.groups_processed = total_groups - Len(failedAt)
          /\ Len(http.failed_groups) = Len(failedAt)
          /\ http.code = IF failedAt = <<>> THEN 200 ELSE 207
          /\ processing_progress.status = "completed"

C11_Witness ==
    /\ Reported
    /\ exports = <<"nonzero">>
    /\ total_groups = 2
    /\ Len(failedAt) = 1
    /\ http.code = 207

\* C12: a pass that finds its group in the cache ends without the OCR of the
\* group having been run or its text read, and without a model call.
C12_CacheHitSkipsOcr ==
    (tpc = "exit" /\ response_dict.shape = "record") =>
        /\ call_log = <<>>
        /\ ocr_log = <<>>

\* C13: every record a pass writes to the cache carries the image paths of its
\* group, one per image, whether the group has one page or several.
C13_RecordCarriesImagePaths ==
    (tpc = "exit" /\ wrote) =>
        /\ cache_file[uuid].image_paths.present
        /\ Len(cache_file[uuid].image_paths.paths) = Len(image_list)

\* The pass has ended with the summary call as its last model call, the
\* response of which json.loads refused.
SummaryUnparsed ==
    /\ tpc = "exit"
    /\ call_log # <<>>
    /\ call_log[Len(call_log)] = [filename |-> <<>>, outcome |-> "badjson"]

\* C18: a summary response that does not parse does not fail the document: the
\* record is written with summary validity false, the raw response as summary
\* contents and every PageRecord of the group, and the pass exits with code 0.
C18_UnparsedSummaryKeepsDocument ==
    SummaryUnparsed =>
        /\ returncode = 0
        /\ wrote
        /\ uuid \in DOMAIN cache_file
        /\ cache_file[uuid].summary =
              [present |-> TRUE, is_valid_json |-> FALSE, contents |-> "raw"]
        /\ Len(individual_responses) > 1
        /\ cache_file[uuid].individual_responses = individual_responses

C18_Witness ==
    /\ SummaryUnparsed
    /\ wrote
    /\ Len(individual_responses) = 3
    /\ \A k \in DOMAIN individual_responses : individual_responses[k].is_valid_json

\* The positions of the summary calls in the call log of the pass.
SummaryCalls == {k \in DOMAIN call_log : call_log[k].filename = <<>>}

\* C19: a pass that took the miss branch and ended has issued no summary call
\* if it holds exactly one PageRecord, and exactly one, after every per-image
\* call, if it holds more than one.
C19_SummaryCallsByPageCount ==
    (tpc = "exit" /\ MissPass) =>
        /\ Len(individual_responses) = 1 => SummaryCalls = {}
        /\ Len(individual_responses) > 1 =>
              /\ SummaryCalls = {Len(call_log)}
              /\ Len(call_log) = Len(image_list) + 1

\* The text is a canonical date: two digits, a month abbreviation, four digits.
IsCanonical(t) ==
    /\ Len(t) \in 8..11
    /\ IsDigit(t[1]) /\ IsDigit(t[2])
    /\ t[3] = "-"
    /\ \E k \in DOMAIN MonthAbbr : SubSeq(t, 4, 6) = MonthAbbr[k]
    /\ t[7] = "-"
    /\ \A k \in 8..Len(t) : IsDigit(t[k])

\* C14: parse_date_string never raises: whatever the value (malformed or empty
\* text, a value that is no text, null), it returns a canonical date or the
\* sentinel, and the sentinel exactly when no format reads the value.
C14_DateParseNeverRaises ==
    (arg.fn = "date" /\ result.done) =>
        /\ result.out.kind \in {"str", "none"}
        /\ result.out.kind = "none" <=>
              \A k \in DOMAIN date_formats : Attempt(arg.value, date_formats[k]).status # "ok"
        /\ result.out.kind = "str" => IsCanonical(result.out.chars)

C14_Witness ==
    /\ arg.fn = "date"
    /\ result.done
    /\ arg.value = IntValue
    /\ result.out = None

\* C15: a response in a code fence, plain or tagged, that holds a document
\* written with typographic quotes is cleaned to a text json.loads reads as it
\* reads the bare document in straight quotes, and no typographic quote is left.
C15_FencedSmartQuotesParse ==
    (arg.fn = "clean" /\ result.done /\ arg.fence # "none" /\ arg.quotes = "typographic") =>
        /\ result.out.parsed = json_loads(Document(arg.key, arg.value))
        /\ \A k \in DOMAIN result.out.cleaned :
              result.out.cleaned[k] \notin {"U+201C", "U+201D", "U+2018", "U+2019"}

\* C16: the tags of the document are the union of the pages' tags, each once:
\* [history, 1800s] and [history, letter] give exactly history, 1800s, letter.
C16_TagsUnion ==
    (arg.fn = "agg" /\ result.done) =>
        LET tags == result.out.tags
        IN  /\ \A j, k \in DOMAIN tags : j # k => tags[j] # tags[k]
            /\ Range(tags) = UNION {Range(arg.pages[k].transcription.tags) : k \in DOMAIN arg.pages}

C16_Witness ==
    /\ arg.fn = "agg"
    /\ result.done
    /\ Len(arg.pages) = 2
    /\ arg.pages[1].transcription.tags = <<"history", "1800s">>
    /\ arg.pages[2].transcription.tags = <<"history", "letter">>
    /\ Len(result.out.tags) = 3
    /\ Range(result.out.tags) = {"history", "1800s", "letter"}

\* The date a canonical text names.
DateNamed(t) ==
    [d |-> Number(SubSeq(t, 1, 2)), m |-> MonthOf[LowerText(SubSeq(t, 4, 6))],
     y |-> Number(SubSeq(t, 8, Len(t)))]

\* What parse_date_string makes of a page's date: whether it reads it, and the
\* date it reads.
Reading(v) ==
    LET c == IF v.kind = "str" /\ v.chars # <<>> THEN parse_date_string(v) ELSE None
    IN  IF c.kind = "str" THEN [ok |-> TRUE, date |-> DateNamed(c.chars)]
        ELSE [ok |-> FALSE, date |-> NoDate]

RECURSIVE Readings(_)
Readings(dates) ==
    IF dates = <<>> THEN <<>> ELSE <<Reading(Head(dates))>> \o Readings(Tail(dates))

\* day-abbreviated_month-year, the day padded to two digits or not.
Rendered(date, padded) ==
    (IF padded THEN Pad2(date.d) ELSE Decimal(date.d))
        \o <<"-">> \o MonthAbbr[date.m] \o <<"-">> \o Decimal(date.y)

\* For page dates of the years from 1000 on, the document date is the earliest
\* page date in the given rendering, or the first page's raw date when no page
\* date can be read.
DocumentDateIs(padded) ==
    (arg.fn = "agg" /\ result.done) =>
        LET dates == [k \in DOMAIN arg.pages |-> arg.pages[k].transcription.date]
            R == Readings(dates)
            E == {k \in DOMAIN R : R[k].ok}
        IN  IF \E k \in E : R[k].date.y < 1000 THEN TRUE
            ELSE IF E = {}
            THEN result.out.date = dates[1]
            ELSE \E k \in E :
                    /\ \A j \in E : ~DateLess(R[j].date, R[k].date)
                    /\ result.out.date = Text(Rendered(R[k].date, padded))

StatedOrder ==
    << <<"%d", "-", "%b", "-", "%Y">>,
       <<"%d", "/", "%m", "/", "%Y">>,
       <<"%Y", "-", "%m", "-", "%d">>,
       <<"%m", "/", "%d", "/", "%Y">>,
       <<"%d", " ", "%b", " ", "%Y">>,
       <<"%b", " ", "%d", ",", " ", "%Y">>,
       <<"%Y", ".", "%m", ".", "%d">>,
       <<"%d", ".", "%m", ".", "%Y">> >>
StatedReads(v) == {k \in DOMAIN StatedOrder : Attempt(v, StatedOrder[k]).status = "ok"}

\* C20: the first format of the stated order that reads the text decides the
\* date; a text day/month/year reads is read so ("01/08/2025" is 1 August 2025),
\* month/day/year being used only when day/month/year does not read it.
C20_FirstFormatDecides ==
    (arg.fn = "date" /\ result.done /\ arg.value.kind = "str") =>
        LET M == StatedReads(arg.value)
            dmy == Attempt(arg.value, <<"%d", "/", "%m", "/", "%Y">>)
        IN  /\ M # {} =>
                  result.out = Text(Strftime(
                      Attempt(arg.value, StatedOrder[CHOOSE k \in M : \A j \in M : k <= j]).date))
            /\ dmy.status = "ok" => result.out = Text(Strftime(dmy.date))
            /\ arg.value = Text(<<"0", "1", "/", "0", "8", "/", "2", "0", "2", "5">>) =>
                  result.out = Text(<<"0", "1", "-", "A", "u", "g", "-", "2", "0", "2", "5">>)

C20_Witness ==
    /\ arg.fn = "date"
    /\ result.done
    /\ arg.value = Text(<<"0", "1", "/", "0", "8", "/", "2", "0", "2", "5">>)
    /\ result.out = Text(<<"0", "1", "-", "A", "u", "g", "-", "2", "0", "2", "5">>)

\* C28: for one model, two non-empty lists naming different sets of files never
\* give the same text to hash (and so never the same cache key), also when a
\* file name holds the separator "-".
C28_PreHashInjective ==
    (/\ fp_out.done
     /\ fp_in.listA # <<>>
     /\ fp_in.listB # <<>>
     /\ Range(fp_in.listA) # Range(fp_in.listB)) =>
        /\ UniqueString(fp_in.listA, model) # UniqueString(fp_in.listB, model)
        /\ generate_uuid(fp_in.listA, model) # generate_uuid(fp_in.listB, model)

\* C21: the canonical text parse_date_string returns for a text it reads is
\* returned unchanged when it is passed to parse_date_string again, and names
\* the calendar date the first call read.
C21_RoundTrip ==
    (arg.fn = "date" /\ result.done /\ result.out.kind = "str") =>
        LET M == {k \in DOMAIN date_formats : Attempt(arg.value, date_formats[k]).status = "ok"}
            first == Attempt(arg.value, date_formats[CHOOSE k \in M : \A j \in M : k <= j]).date
            again == parse_date_string(result.out)
        IN  /\ again = result.out
            /\ DateNamed(again.chars) = first

\* The control characters (Unicode category Cc) among the characters drawn.
IsCc(c) ==
    c \in {"U+0000", "U+0007", "\t", "\n", "U+000B", "U+000C", "\r", "U+001B", "U+007F", "U+0085"}
ControlsLeftWithin(allowed) ==
    (arg.fn = "clean" /\ result.done) =>
        \A k \in DOMAIN result.out.cleaned :
            IsCc(result.out.cleaned[k]) => result.out.cleaned[k] \in allowed

\* C22 as stated: the text clean_json_text returns holds no control character
\* other than tab and newline; a carriage return is stripped like the others.
C22_OnlyTabAndNewlineLeft == ControlsLeftWithin({"\t", "\n"})

\* C22, amended: the text clean_json_text returns holds no control character
\* other than tab, newline and carriage return.
C22_OnlyTabNewlineReturnLeft == ControlsLeftWithin({"\t", "\n", "\r"})

C22_Witness ==
    /\ arg.fn = "clean"
    /\ result.done
    /\ arg.value = <<"\r", "U+0085">>
    /\ \E k \in DOMAIN result.out.cleaned : result.out.cleaned[k] = "\r"
    /\ \A k \in DOMAIN result.out.cleaned : result.out.cleaned[k] # "U+0085"

\* k of n as a whole percent.
WholePercent(k, n) == (100 * k) \div n

\* The groups the loop has passed when the last progress update was made: the
\* groups begun, less the one in hand or failed last (a failure updates nothing).
LastFailedGroup == IF failedAt = <<>> THEN 0 ELSE failedAt[Len(failedAt)].group
GroupsPassed ==
    IF attempts = <<>> THEN 0
    ELSE IF opc \in {"loop", "export", "cleanup", "final"} /\ LastFailedGroup # Len(attempts)
    THEN Len(attempts)
    ELSE Len(attempts) - 1

\* C23 as stated: during a run and at its final update the percentage of the
\* progress record is completed_groups of total_groups as a whole percent, so
\* that a failed group does not advance it.
C23_PercentOfCompleted ==
    processing_progress.status \in {"processing", "completed"} =>
        processing_progress.percentage =
            WholePercent(processing_progress.completed_groups, processing_progress.total_groups)

\* C23, amended: during a run the percentage is the whole percent of the groups
\* the loop has passed, completed or failed; the final update sets 100 and the
\* error update 0, whatever the number of completed groups.
C23_PercentOfGroupsPassed ==
    /\ processing_progress.status = "processing" =>
          processing_progress.percentage = WholePercent(GroupsPassed, total_groups)
    /\ processing_progress.status = "completed" => processing_progress.percentage = 100
    /\ processing_progress.status = "error" => processing_progress.percentage = 0

C23_Witness ==
    /\ processing_progress.status = "processing"
    /\ total_groups = 2
    /\ failedAt # <<>>
    /\ processing_progress.current_group = 2
    /\ processing_progress.completed_groups = 0
    /\ processing_progress.percentage = 50

\* A step of a run: the progress record stood at status processing before it.
CountsNotDecreased ==
    /\ processing_progress'.completed_groups >= processing_progress.completed_groups
    /\ processing_progress'.current_group >= processing_progress.current_group
PercentageNotDecreased ==
    processing_progress'.percentage >= processing_progress.percentage

\* C24 as stated: from the reset that starts a run to its end with status
\* completed or error, no step of the run lowers percentage, completed_groups or
\* current_group.
C24_ProgressMonotonic ==
    [][processing_progress.status = "processing" =>
          CountsNotDecreased /\ PercentageNotDecreased]_vars

\* C24, amended: no step of a run lowers completed_groups or current_group, and
\* none lowers percentage except the update that ends the run with status error,
\* which sets percentage to 0.
C24_ProgressMonotonicButError ==
    [][processing_progress.status = "processing" =>
          /\ CountsNotDecreased
          /\ processing_progress'.status # "error" => PercentageNotDecreased
          /\ processing_progress'.status = "error" => processing_progress'.percentage = 0]_vars

C24_Witness ==
    /\ processing_progress.status = "error"
    /\ exports # <<>>
    /\ processing_progress.completed_groups = 2
    /\ processing_progress.current_group = 2
    /\ processing_progress.percentage = 0

\* C26: when the export is invoked, the persisted cache holds, for every group
\* of the request counted completed, a DocumentRecord under the group's
\* fingerprint with at least one PageRecord.
C26_CompletedGroupsHaveRecords ==
    opc = "export" =>
        \A k \in DOMAIN counted :
            /\ counted[k] \in DOMAIN cache_file
            /\ cache_file[counted[k]].individual_responses # <<>>

\* C27: in every state of the progress record the progress endpoint can read,
\* 0 <= completed_groups <= current_group <= total_groups, also when a second
\* request starts while the run of an earlier one is in status processing.
C27_CountsOrdered ==
    /\ 0 <= processing_progress.completed_groups
    /\ processing_progress.completed_groups <= processing_progress.current_group
    /\ processing_progress.current_group <= processing_progress.total_groups

\* C25: a run that has set the status to processing sets it to completed or to
\* error in the end, and no step takes the status from processing back to idle.
C25_RunEnds ==
    /\ (processing_progress.status = "processing")
          ~> (processing_progress.status \in {"completed", "error"})
    /\ [][processing_progress.status = "processing" =>
              processing_progress'.status # "idle"]_vars

C25_Witness ==
    /\ DOMAIN handlers = {"first"}
    /\ handlers["first"].pc = "idle"
    /\ handlers["first"].code = 207
    /\ processing_progress.status = "completed"

====
